---- MODULE Spec2Model ----
(***************************************************************************)
(* Discount eligibility and ranking engine of eatmilay-backend:            *)
(* validateDiscountForOrder, the store endpoints built on it               *)
(* (validate, available offers, discounts for products), the checkout      *)
(* commit's re-validation and the status sweep.                            *)
(*                                                                         *)
(* Money is held in minor units (paise): the integer n stands for the      *)
(* JSON number n/100.  A percentage value is a whole number of percent.    *)
(* The percentage amount is computed as the code computes it, in IEEE-754  *)
(* binary64 (JavaScript numbers), on arbitrary-precision integers.         *)
(***************************************************************************)
EXTENDS Integers, Naturals, Sequences, FiniteSets, TLC

(***************************************************************************)
(* Arbitrary-precision naturals: little-endian sequences of limbs in       *)
(* 0..LimbBase-1 without leading zero limbs; <<>> is zero.                 *)
(***************************************************************************)
LimbBits == 15
LimbBase == 32768
MantissaBits == 53

RECURSIVE Pow2(_)
Pow2(n) == IF n = 0 THEN 1 ELSE 2 * Pow2(n - 1)

RECURSIVE BigNorm(_)
BigNorm(a) ==
  IF a = <<>> THEN <<>>
  ELSE IF a[Len(a)] = 0 THEN BigNorm(SubSeq(a, 1, Len(a) - 1)) ELSE a

RECURSIVE BigFromNat(_)
BigFromNat(n) ==
  IF n = 0 THEN <<>> ELSE <<n % LimbBase>> \o BigFromNat(n \div LimbBase)

RECURSIVE BigToNat(_)
BigToNat(a) ==
  IF a = <<>> THEN 0 ELSE a[1] + LimbBase * BigToNat(Tail(a))

RECURSIVE BigMulSmallC(_, _, _)
BigMulSmallC(a, k, carry) ==
  IF a = <<>> THEN BigFromNat(carry)
  ELSE LET t == a[1] * k + carry
       IN <<t % LimbBase>> \o BigMulSmallC(Tail(a), k, t \div LimbBase)

BigMulSmall(a, k) == BigNorm(BigMulSmallC(a, k, 0))

RECURSIVE BigAddC(_, _, _)
BigAddC(a, b, carry) ==
  IF a = <<>> /\ b = <<>> THEN BigFromNat(carry)
  ELSE LET x == IF a = <<>> THEN 0 ELSE a[1]
           y == IF b = <<>> THEN 0 ELSE b[1]
           t == x + y + carry
       IN <<t % LimbBase>> \o
          BigAddC(IF a = <<>> THEN <<>> ELSE Tail(a),
                  IF b = <<>> THEN <<>> ELSE Tail(b), t \div LimbBase)

BigAdd(a, b) == BigNorm(BigAddC(a, b, 0))

\* a * LimbBase^n
BigShiftLimbs(a, n) ==
  IF a = <<>> THEN <<>> ELSE [i \in 1..n |-> 0] \o a

RECURSIVE BigMul(_, _)
BigMul(a, b) ==
  IF b = <<>> THEN <<>>
  ELSE BigAdd(BigMulSmall(a, b[1]), BigShiftLimbs(BigMul(a, Tail(b)), 1))

\* quotient and remainder of a by a single-limb divisor d
RECURSIVE BigDivSmallR(_, _, _, _)
BigDivSmallR(a, d, i, rem) ==
  IF i = 0 THEN [q |-> <<>>, r |-> rem]
  ELSE LET cur  == rem * LimbBase + a[i]
           rest == BigDivSmallR(a, d, i - 1, cur % d)
       IN [q |-> rest.q \o <<cur \div d>>, r |-> rest.r]

BigDivSmall(a, d) ==
  LET x == BigDivSmallR(a, d, Len(a), 0) IN [q |-> BigNorm(x.q), r |-> x.r]

RECURSIVE NatBitLen(_)
NatBitLen(n) == IF n = 0 THEN 0 ELSE 1 + NatBitLen(n \div 2)

BigBitLen(a) ==
  IF a = <<>> THEN 0 ELSE (Len(a) - 1) * LimbBits + NatBitLen(a[Len(a)])

\* floor(a / 2^t) and whether any discarded bit was set
BigShr(a, t) ==
  LET ld   == t \div LimbBits
      kept == IF ld >= Len(a) THEN <<>> ELSE SubSeq(a, ld + 1, Len(a))
      lost == \E i \in 1..Len(a) : i <= ld /\ a[i] # 0
      d    == BigDivSmall(kept, Pow2(t % LimbBits))
  IN [q |-> d.q, sticky |-> lost \/ d.r # 0]

BigIsOdd(a) == a # <<>> /\ a[1] % 2 = 1

(***************************************************************************)
(* binary64 values m * 2^e (m a natural of at most MantissaBits bits, or   *)
(* 2^MantissaBits after a carry).  The amounts of the model stay far from  *)
(* the subnormal and overflow ranges.                                      *)
(***************************************************************************)
ScaleLimbs == 5

\* the double nearest to (n / d) * 2^k, ties to even (d a single limb)
RoundToDouble(n, d, k) ==
  IF n = <<>> THEN [m |-> <<>>, e |-> 0]
  ELSE LET scaled == BigDivSmall(BigShiftLimbs(n, ScaleLimbs), d)
           t      == BigBitLen(scaled.q) - MantissaBits
           sh     == BigShr(scaled.q, t - 1)
           half   == BigIsOdd(sh.q)
           trunc  == BigDivSmall(sh.q, 2).q
           sticky == sh.sticky \/ scaled.r # 0
           up     == half /\ (sticky \/ BigIsOdd(trunc))
       IN [m |-> IF up THEN BigAdd(trunc, <<1>>) ELSE trunc,
           e |-> k - ScaleLimbs * LimbBits + t]

\* a JSON decimal with two fraction digits, n/100, as the double it parses to
NumberFromPaise(n) == RoundToDouble(BigFromNat(n), 100, 0)
\* a whole number as a double
NumberFromInt(n) == [m |-> BigFromNat(n), e |-> 0]

\* x * y on doubles
FMul(x, y) == RoundToDouble(BigMul(x.m, y.m), 1, x.e + y.e)
\* x / d on doubles, d a whole number below LimbBase
FDivInt(x, d) == RoundToDouble(x.m, d, x.e)

\* Math.round: floor(x + 1/2), exact
MathRound(x) ==
  IF x.m = <<>> THEN 0
  ELSE IF x.e >= 0 THEN BigToNat(BigMul(x.m, BigFromNat(Pow2(x.e))))
  ELSE LET sh == BigShr(x.m, (0 - x.e) - 1)
       IN BigToNat(BigDivSmall(BigAdd(sh.q, <<1>>), 2).q)

(***************************************************************************)
(* Strings are sequences of characters, so that trim(), toUpperCase() and  *)
(* the case-insensitive anchored regular expressions do what they do.      *)
(***************************************************************************)
Null == -1                \* null / undefined number or Date
NullStr == <<"null">>     \* null / undefined string

UpperOf(c) == IF c = "a" THEN "A" ELSE IF c = "b" THEN "B" ELSE IF c = "r" THEN "R" ELSE c

toUpperCase(s) == [i \in 1..Len(s) |-> UpperOf(s[i])]

RECURSIVE trimStart(_)
trimStart(s) == IF s # <<>> /\ s[1] = " " THEN trimStart(Tail(s)) ELSE s

RECURSIVE trimEnd(_)
trimEnd(s) ==
  IF s # <<>> /\ s[Len(s)] = " " THEN trimEnd(SubSeq(s, 1, Len(s) - 1)) ELSE s

trim(s) == trimEnd(trimStart(s))

\* new RegExp("^" + escaped(pattern) + "$", "i").test(stored)
RegexMatchI(pattern, stored) ==
  stored # NullStr /\ toUpperCase(pattern) = toUpperCase(stored)

(***************************************************************************)
(* The stores.  discounts and orders are sequences in natural (insertion)  *)
(* order, which is the order find() and findOne() return documents in.     *)
(***************************************************************************)
VARIABLES
  discounts,   \* the "discount" collection
  orders,      \* the "order" collection
  products,    \* the "product" collection: product id -> categoryId ("none" for null)
  carts,       \* the "cart" collection: the customer ids that hold a cart
  payments,    \* payment orders created at the payment gateway
  now,         \* the clock new Date() reads
  res,         \* the response of the read-only store endpoint last served
  co,          \* the createStoreOrder requests in flight, per request slot
  sync,        \* the syncDiscountStatuses run in flight
  admin        \* the createDiscount / updateDiscount requests in flight, per slot

vars == <<discounts, orders, products, carts, payments, now, res, co, sync, admin>>

Idle == [op |-> "idle"]

\* db.collection("discount").findOne({code: {$regex: ^code$, "i"}})
RECURSIVE FindDiscountFrom(_, _, _)
FindDiscountFrom(ds, code, i) ==
  IF i > Len(ds) THEN 0
  ELSE IF RegexMatchI(code, ds[i].code) THEN i
  ELSE FindDiscountFrom(ds, code, i + 1)

FindDiscountByCode(ds, code) == FindDiscountFrom(ds, code, 1)

\* a lookup that compares the email case-sensitively
ExistingOrderCaseSensitive(os, email) ==
  \E i \in 1..Len(os) : os[i].customerEmail = email

\* db.collection("order").findOne({customerEmail: {$regex: ^email$, "i"}})
ExistingOrder(os, email) ==
  \E i \in 1..Len(os) : RegexMatchI(email, os[i].customerEmail)

\* items.filter(pred).reduce((sum, item) => sum + item.unitPrice * item.quantity, 0)
RECURSIVE SumLines(_)
SumLines(items) ==
  IF items = <<>> THEN 0
  ELSE items[1].unitPrice * items[1].quantity + SumLines(Tail(items))

\* Math.round((base * (value / 100)) * 100) / 100, in paise
PercentageAmount(base, value) ==
  MathRound(FMul(FMul(NumberFromPaise(base), FDivInt(NumberFromInt(value), 100)),
                 NumberFromInt(100)))

Min(a, b) == IF a <= b THEN a ELSE b
Max(a, b) == IF a >= b THEN a ELSE b

\* a rejection that carries no message
InvalidWithoutMessage(msg) == [valid |-> FALSE, message |-> ""]

Invalid(msg) == [valid |-> FALSE, message |-> msg]

\* options.itemCategoryIds?.[productId]; "none" is a null category
CategoryOfItem(map, productId) ==
  IF productId \in DOMAIN map THEN map[productId] ELSE "none"

ApplicableSubtotal(d, subtotal, items, options) ==
  IF d.productIds # {}
    THEN LET ByProduct(item) == item.productId \in d.productIds
         IN SumLines(SelectSeq(items, ByProduct))
  ELSE IF d.categoryIds # {} /\ options.hasItemCategoryIds
    THEN LET ByCategory(item) ==
               LET catId == CategoryOfItem(options.itemCategoryIds, item.productId)
               IN catId # "none" /\ catId \in d.categoryIds
         IN SumLines(SelectSeq(items, ByCategory))
  ELSE subtotal

DiscountAmountOf(d, applicableSubtotal) ==
  IF d.type = "percentage"
    THEN PercentageAmount(applicableSubtotal, d.value)
    ELSE Min(d.value, applicableSubtotal)

\* discount.status ?? "active"
EffectiveStatus(discount) ==
  IF discount.status = "none" THEN "active" ELSE discount.status

\* a scheduled discount rejected whatever its startsAt
ScheduledAlwaysNotStarted(status, startsAt, t) == status = "scheduled"

\* status === "scheduled" and startsAt && new Date(startsAt) > now
ScheduledNotStarted(status, startsAt, t) ==
  status = "scheduled" /\ startsAt # Null /\ startsAt > t

\* startsAt && new Date(startsAt) > now
NotStarted(startsAt, t) == startsAt # Null /\ startsAt > t

\* the expiry comparison the wrong way round
IsExpiredInverted(expiresAt, t) == expiresAt # Null /\ expiresAt > t

\* expiresAt && new Date(expiresAt) < now
IsExpired(expiresAt, t) == expiresAt # Null /\ expiresAt < t

\* the usage cap off by one
UsageExhaustedOffByOne(maxUsage, usedCount) == maxUsage # Null /\ usedCount > maxUsage

\* maxUsage != null && usedCount >= maxUsage
UsageExhausted(maxUsage, usedCount) == maxUsage # Null /\ usedCount >= maxUsage

\* the referral gate: a non-blank referralCode the customer's code does not match
ReferralRequired(referralCode, customerReferralCode) ==
  LET customerRef == IF customerReferralCode = NullStr THEN <<>>
                     ELSE trim(customerReferralCode)
  IN /\ referralCode # NullStr
     /\ trim(referralCode) # <<>>
     /\ \/ customerRef = <<>>
        \/ toUpperCase(customerRef) # toUpperCase(trim(referralCode))

\* minOrderAmount != null && minOrderAmount > 0 && subtotal < minOrderAmount
BelowMinimum(minOrderAmount, subtotal) ==
  minOrderAmount # Null /\ minOrderAmount > 0 /\ subtotal < minOrderAmount

\* the message of the below-minimum result carries amounts; the model keeps its fixed part
validateDiscountForOrder(ds, os, t, code, subtotal, items, options) ==
  LET trimmed == trim(code)
      idx     == FindDiscountByCode(ds, toUpperCase(trimmed))
  IN
  IF trimmed = <<>> THEN Invalid("Invalid or expired coupon code")
  ELSE IF idx = 0 THEN Invalid("Invalid or expired coupon code")
  ELSE
    LET discount == ds[idx]
        status   == EffectiveStatus(discount)
        startsAt == discount.startsAt
        customerEmail == IF options.customerEmail = NullStr THEN <<>>
                         ELSE trim(options.customerEmail)
        applicableSubtotal == ApplicableSubtotal(discount, subtotal, items, options)
    IN
    IF status = "disabled" THEN Invalid("This coupon is no longer active")
    ELSE IF ScheduledNotStarted(status, startsAt, t)
      THEN Invalid("This coupon is not yet active")
    ELSE IF NotStarted(startsAt, t)
      THEN Invalid("This coupon is not yet active")
    ELSE IF IsExpired(discount.expiresAt, t)
      THEN Invalid("This coupon has expired")
    ELSE IF UsageExhausted(discount.maxUsage, discount.usedCount)
      THEN Invalid("This coupon has reached its usage limit")
    ELSE IF discount.firstOrderOnly /\ customerEmail = <<>>
      THEN Invalid("Enter your email to use this first-order offer")
    ELSE IF discount.firstOrderOnly /\ ExistingOrder(os, customerEmail)
      THEN Invalid("This offer is for first-time customers only")
    ELSE IF ReferralRequired(discount.referralCode, options.customerReferralCode)
      THEN Invalid("This offer requires a referral link")
    ELSE IF BelowMinimum(discount.minOrderAmount, subtotal)
      THEN Invalid("Min order required")
    ELSE IF applicableSubtotal <= 0
      THEN Invalid("This coupon does not apply to any items in your cart")
    ELSE [valid |-> TRUE,
          discountAmount |-> DiscountAmountOf(discount, applicableSubtotal)]

(***************************************************************************)
(* POST /store/discounts/validate                                          *)
(***************************************************************************)
\* z.string().email(): non-empty and free of white space, as far as the model goes
IsEmail(s) == s # <<>> /\ \A i \in 1..Len(s) : s[i] # " "

\* validateSchema.safeParse(req.body).success
ValidateSchemaOk(code, customerEmail) ==
  /\ Len(code) >= 1
  /\ customerEmail = NullStr \/ IsEmail(customerEmail)

\* the options validateStoreDiscount hands to validateDiscountForOrder
PreviewOptions(customerEmail, customerReferralCode) ==
  [customerEmail |-> customerEmail, customerReferralCode |-> customerReferralCode,
   hasItemCategoryIds |-> FALSE, itemCategoryIds |-> <<>>]

validateStoreDiscount(ds, os, t, code, subtotal, items, customerEmail, customerReferralCode) ==
  IF ~ValidateSchemaOk(code, customerEmail)
    THEN [status |-> 400, valid |-> FALSE, message |-> "Invalid input"]
  ELSE LET result == validateDiscountForOrder(ds, os, t, code, subtotal, items,
                       PreviewOptions(customerEmail, customerReferralCode))
       IN IF result.valid
            THEN [status |-> 200, valid |-> TRUE, discountAmount |-> result.discountAmount]
            ELSE [status |-> 200, valid |-> FALSE, message |-> result.message]

(***************************************************************************)
(* The catalog query shared by the offer endpoints, and the product        *)
(* lookup that resolves the category of each requested product id.         *)
(***************************************************************************)
ValidObjectIds == {"p1", "p2", "p3"}

ObjectIdIsValid(id) == id \in ValidObjectIds

\* find({$and: [status active|scheduled, expiresAt null|$gt now, startsAt null|$lte now]})
InCatalog(d, t) ==
  /\ d.status = "active" \/ d.status = "scheduled"
  /\ d.expiresAt = Null \/ d.expiresAt > t
  /\ d.startsAt = Null \/ d.startsAt <= t

CatalogQuery(ds, t) == SelectSeq(ds, LAMBDA d : InCatalog(d, t))

\* product.find({_id: {$in: objectIds}}) folded into a map id -> categoryId ?? null
ItemCategoryIds(ps, ids) ==
  [id \in {x \in ids : ObjectIdIsValid(x) /\ x \in DOMAIN ps} |-> ps[id]]

ItemProductIds(items) == {items[i].productId : i \in 1..Len(items)}

(***************************************************************************)
(* POST /store/discounts/available                                         *)
(***************************************************************************)
\* the threshold comparison the wrong way round
IsLockedInverted(minOrderAmount, subtotal) ==
  minOrderAmount # Null /\ minOrderAmount > 0 /\ subtotal > minOrderAmount

\* isLocked of the loop body
IsLocked(minOrderAmount, subtotal) ==
  minOrderAmount # Null /\ minOrderAmount > 0 /\ subtotal < minOrderAmount

\* one pass of the loop body; <<>> when the candidate is skipped (continue)
OfferFor(discount, t, subtotal, items, itemCategoryIds, customerReferralCode) ==
  LET status    == IF discount.status = "none" THEN "active" ELSE discount.status
      startsAt  == discount.startsAt
      expiresAt == discount.expiresAt
      maxUsage  == discount.maxUsage
      usedCount == discount.usedCount
      minOrderAmount == discount.minOrderAmount
      referralCode == IF discount.referralCode = NullStr THEN <<>>
                      ELSE trim(discount.referralCode)
      customerRef == IF customerReferralCode = NullStr THEN <<>>
                     ELSE trim(customerReferralCode)
      applicableSubtotal ==
        ApplicableSubtotal(discount, subtotal, items,
          [hasItemCategoryIds |-> TRUE, itemCategoryIds |-> itemCategoryIds])
      isLocked == IsLocked(minOrderAmount, subtotal)
      base == IF isLocked THEN minOrderAmount ELSE applicableSubtotal
  IN
  IF status = "disabled" THEN <<>>
  ELSE IF startsAt # Null /\ startsAt > t THEN <<>>
  ELSE IF expiresAt # Null /\ expiresAt < t THEN <<>>
  ELSE IF maxUsage # Null /\ usedCount >= maxUsage THEN <<>>
  ELSE IF referralCode # <<>>
          /\ (customerRef = <<>> \/ toUpperCase(customerRef) # toUpperCase(referralCode))
    THEN <<>>
  ELSE IF applicableSubtotal <= 0 THEN <<>>
  ELSE << [code |-> toUpperCase(trim(discount.code)),
           type |-> discount.type,
           value |-> discount.value,
           minOrderAmount |-> minOrderAmount,
           discountAmount |-> DiscountAmountOf(discount, base),
           locked |-> isLocked,
           gapAmount |-> IF isLocked THEN minOrderAmount - subtotal ELSE Null,
           expiresAt |-> expiresAt,
           usesLeft |-> IF maxUsage # Null THEN Max(0, maxUsage - usedCount) ELSE Null] >>

RECURSIVE OffersOf(_, _, _, _, _, _)
OffersOf(cands, t, subtotal, items, itemCategoryIds, customerReferralCode) ==
  IF cands = <<>> THEN <<>>
  ELSE OfferFor(cands[1], t, subtotal, items, itemCategoryIds, customerReferralCode)
       \o OffersOf(Tail(cands), t, subtotal, items, itemCategoryIds, customerReferralCode)

\* availableSchema.safeParse(req.body).success
AvailableSchemaOk(customerEmail) == customerEmail = NullStr \/ IsEmail(customerEmail)

getAvailableOffers(ds, ps, t, subtotal, items, customerEmail, customerReferralCode) ==
  IF ~AvailableSchemaOk(customerEmail)
    THEN [status |-> 400, offers |-> <<>>]
  ELSE [status |-> 200,
        offers |-> OffersOf(CatalogQuery(ds, t), t, subtotal, items,
                            ItemCategoryIds(ps, ItemProductIds(items)),
                            customerReferralCode)]

(***************************************************************************)
(* POST /store/discounts/for-products                                      *)
(***************************************************************************)
NoBest == [code |-> NullStr]

\* 100 * the stored number value: a percentage is kept in whole percent, a
\* fixed value in paise, and isBetter compares the two stored numbers as they are
ValueTimes100(x) == IF x.type = "percentage" THEN 100 * x.value ELSE x.value

\* the candidate replaces the running best
IsBetter(discount, best) ==
  \/ best = NoBest
  \/ discount.type = "percentage" /\ ValueTimes100(discount) > ValueTimes100(best)
  \/ discount.type = "fixed" /\ best.type = "percentage"

\* the discount passes the loop's own checks and applies to the product
AppliesToProduct(discount, t, productId, productCategoryMap) ==
  LET status == IF discount.status = "none" THEN "active" ELSE discount.status
      productCategoryId == CategoryOfItem(productCategoryMap, productId)
      appliesByProduct == discount.productIds = {} \/ productId \in discount.productIds
      appliesByCategory == /\ discount.categoryIds # {}
                           /\ productCategoryId # "none"
                           /\ productCategoryId \in discount.categoryIds
  IN /\ status # "disabled"
     /\ ~(discount.startsAt # Null /\ discount.startsAt > t)
     /\ ~(discount.expiresAt # Null /\ discount.expiresAt < t)
     /\ ~(discount.maxUsage # Null /\ discount.usedCount >= discount.maxUsage)
     /\ appliesByProduct \/ appliesByCategory

RECURSIVE BestFor(_, _, _, _, _)
BestFor(cands, t, productId, productCategoryMap, best) ==
  IF cands = <<>> THEN best
  ELSE LET discount == cands[1]
           next == IF AppliesToProduct(discount, t, productId, productCategoryMap)
                      /\ IsBetter(discount, best)
                     THEN [code |-> toUpperCase(trim(discount.code)),
                           value |-> discount.value,
                           type |-> discount.type]
                     ELSE best
       IN BestFor(Tail(cands), t, productId, productCategoryMap, next)

\* forProductsSchema: 1..100 product ids
getDiscountsForProducts(ds, ps, t, productIds) ==
  IF Len(productIds) < 1 \/ Len(productIds) > 100
    THEN [status |-> 400, result |-> <<>>]
  ELSE LET ids  == {productIds[i] : i \in 1..Len(productIds)}
           map  == ItemCategoryIds(ps, ids)
           best(id) == BestFor(CatalogQuery(ds, t), t, id, map, NoBest)
       IN [status |-> 200,
           result |-> [id \in {x \in ids : best(x) # NoBest} |-> best(id)]]

(***************************************************************************)
(* POST /store/orders (createStoreOrder), up to the coupon re-validation.  *)
(* createOrderSchema has no customerReferralCode key, so zod strips it and *)
(* the handler reads undefined.                                            *)
(***************************************************************************)
\* createOrderSchema.safeParse(req.body).success
CreateOrderSchemaOk(customerEmail, items) == IsEmail(customerEmail) /\ Len(items) >= 1

\* the options createStoreOrder hands to validateDiscountForOrder
CheckoutOptions(ps, items, customerEmail) ==
  [customerEmail |-> customerEmail, customerReferralCode |-> NullStr,
   hasItemCategoryIds |-> Len(items) > 0,
   itemCategoryIds |-> ItemCategoryIds(ps, ItemProductIds(items))]

\* the handler revalidates only a non-blank coupon with a positive client discount
Revalidates(couponCode, clientDiscountAmount) ==
  couponCode # NullStr /\ trim(couponCode) # <<>> /\ clientDiscountAmount > 0

\* getNextOrderNumber: EM-YYYYMMDD-NNNNNN from the clock and countDocuments() + 1
getNextOrderNumber(os, t) == [date |-> t, seq |-> Len(os) + 1]

\* totalAmount of createStoreOrder
TotalAmount(subtotal, discountAmount, clientDiscountAmount, shippingAmount, total) ==
  IF discountAmount # clientDiscountAmount
    THEN Max(0, subtotal - discountAmount + shippingAmount)
    ELSE total

(***************************************************************************)
(* Actions.  A read-only endpoint is one atomic step that leaves its       *)
(* request and response in res; Respond hands the response over.           *)
(***************************************************************************)
\* the request and the response of POST /store/discounts/validate
ValidateResponse(code, subtotal, items, customerEmail, customerReferralCode) ==
  LET idx == FindDiscountByCode(discounts, toUpperCase(trim(code)))
  IN [op |-> "validate", code |-> code, subtotal |-> subtotal,
      items |-> items, customerEmail |-> customerEmail,
      customerReferralCode |-> customerReferralCode,
      store |-> "up", discount |-> idx,
      applicableSubtotal |->
        IF idx = 0 THEN Null
        ELSE ApplicableSubtotal(discounts[idx], subtotal, items,
               PreviewOptions(customerEmail, customerReferralCode)),
      out |-> validateStoreDiscount(discounts, orders, now, code, subtotal,
                items, customerEmail, customerReferralCode)]

\* a validate that counts a use of a capped discount it accepts
ValidateCountingUse(Codes, Subtotals, Carts, Emails, Refs) ==
  /\ res = Idle
  /\ \E code \in Codes, subtotal \in Subtotals, items \in Carts,
        customerEmail \in Emails, customerReferralCode \in Refs :
       LET r == ValidateResponse(code, subtotal, items, customerEmail,
                                 customerReferralCode)
       IN /\ res' = r
          /\ discounts' =
               IF r.out.status = 200 /\ r.out.valid
                    /\ discounts[r.discount].maxUsage # Null
                 THEN [discounts EXCEPT ![r.discount].usedCount = @ + 1]
                 ELSE discounts
  /\ UNCHANGED <<admin, sync, orders, products, carts, payments, now, co>>

Validate(Codes, Subtotals, Carts, Emails, Refs) ==
  /\ res = Idle
  /\ \E code \in Codes, subtotal \in Subtotals, items \in Carts,
        customerEmail \in Emails, customerReferralCode \in Refs :
       res' = ValidateResponse(code, subtotal, items, customerEmail,
                               customerReferralCode)
  /\ UNCHANGED <<admin, sync, discounts, orders, products, carts, payments, now, co>>

\* the promise validateDiscountForOrder returns is rejected
Threw == [threw |-> TRUE]

\* validateDiscountForOrder while the store rejects its reads: a blank code
\* returns before the first findOne, any other code awaits it and throws
validateDiscountForOrderStoreDown(code) ==
  IF trim(code) = <<>> THEN Invalid("Invalid or expired coupon code")
  ELSE Threw

\* the handler has no catch: the rejection leaves it without a response
validateStoreDiscountStoreDown(code, customerEmail) ==
  IF ~ValidateSchemaOk(code, customerEmail)
    THEN [status |-> 400, valid |-> FALSE, message |-> "Invalid input"]
  ELSE LET result == validateDiscountForOrderStoreDown(code)
       IN IF result = Threw
            THEN [status |-> Null, threw |-> TRUE]
            ELSE [status |-> 200, valid |-> FALSE, message |-> result.message]

\* POST /store/discounts/validate while the store is unreachable
ValidateStoreDown(Codes, Subtotals, Carts, Emails, Refs) ==
  /\ res = Idle
  /\ \E code \in Codes, subtotal \in Subtotals, items \in Carts,
        customerEmail \in Emails, customerReferralCode \in Refs :
       res' = [op |-> "validate", code |-> code, subtotal |-> subtotal,
               items |-> items, customerEmail |-> customerEmail,
               customerReferralCode |-> customerReferralCode,
               store |-> "down", discount |-> 0, applicableSubtotal |-> Null,
               out |-> validateStoreDiscountStoreDown(code, customerEmail)]
  /\ UNCHANGED <<admin, sync, discounts, orders, products, carts, payments, now, co>>

AvailableOffers(Subtotals, Carts, Emails, Refs) ==
  /\ res = Idle
  /\ \E subtotal \in Subtotals, items \in Carts,
        customerEmail \in Emails, customerReferralCode \in Refs :
       res' = [op |-> "available", subtotal |-> subtotal, items |-> items,
               customerEmail |-> customerEmail,
               customerReferralCode |-> customerReferralCode,
               out |-> getAvailableOffers(discounts, products, now, subtotal, items,
                         customerEmail, customerReferralCode)]
  /\ UNCHANGED <<admin, sync, discounts, orders, products, carts, payments, now, co>>

DiscountsForProducts(IdLists) ==
  /\ res = Idle
  /\ \E productIds \in IdLists :
       res' = [op |-> "forProducts", productIds |-> productIds,
               out |-> getDiscountsForProducts(discounts, products, now, productIds)]
  /\ UNCHANGED <<admin, sync, discounts, orders, products, carts, payments, now, co>>

Respond ==
  /\ res # Idle
  /\ res' = Idle
  /\ UNCHANGED <<admin, sync, discounts, orders, products, carts, payments, now, co>>

(***************************************************************************)
(* createStoreOrder, one step per await: the coupon re-validation, the     *)
(* order number, the payment order, the insert, the cart clean-up.         *)
(***************************************************************************)
CoIdle == [pc |-> "idle"]
NoValidation == [skipped |-> TRUE]

\* the request after the parse and the coupon re-validation
AfterValidate(req) ==
  IF ~CreateOrderSchemaOk(req.customerEmail, req.items)
    THEN [pc |-> "done", req |-> req, validation |-> NoValidation,
          out |-> [status |-> 400, error |-> "Invalid input"]]
  ELSE IF Revalidates(req.couponCode, req.discountAmount)
    THEN LET result == validateDiscountForOrder(discounts, orders, now,
                         req.couponCode, req.subtotal, req.items,
                         CheckoutOptions(products, req.items, req.customerEmail))
         IN IF ~result.valid
              THEN [pc |-> "done", req |-> req, validation |-> result,
                    out |-> [status |-> 400, error |-> "COUPON_INVALID",
                             message |-> result.message]]
              ELSE [pc |-> "number", req |-> req, validation |-> result,
                    discountAmount |-> result.discountAmount]
  ELSE [pc |-> "number", req |-> req, validation |-> NoValidation,
        discountAmount |-> req.discountAmount]

\* a handler that empties the customer's cart before it validates the coupon
CheckoutValidateClearingCart(r, Reqs) ==
  /\ co[r].pc = "idle"
  /\ \E req \in Reqs :
       /\ co' = [co EXCEPT ![r] = AfterValidate(req)]
       /\ carts' = carts \ {req.customerId}
  /\ UNCHANGED <<admin, sync, discounts, orders, products, payments, now, res>>

CheckoutValidate(r, Reqs) ==
  /\ co[r].pc = "idle"
  /\ \E req \in Reqs : co' = [co EXCEPT ![r] = AfterValidate(req)]
  /\ UNCHANGED <<admin, sync, discounts, orders, products, carts, payments, now, res>>

CheckoutNumber(r) ==
  /\ co[r].pc = "number"
  /\ co' = [co EXCEPT ![r] =
       [pc |-> "pay", req |-> co[r].req, validation |-> co[r].validation,
        discountAmount |-> co[r].discountAmount,
        orderNumber |-> getNextOrderNumber(orders, now),
        totalAmount |-> TotalAmount(co[r].req.subtotal, co[r].discountAmount,
                          co[r].req.discountAmount, co[r].req.shippingAmount,
                          co[r].req.total)]]
  /\ UNCHANGED <<admin, sync, discounts, orders, products, carts, payments, now, res>>

\* createRazorpayOrder succeeds or throws; cash on delivery needs no gateway
CheckoutPay(r) ==
  /\ co[r].pc = "pay"
  /\ IF co[r].req.paymentMethod = "razorpay"
       THEN \/ /\ payments' = payments + 1
               /\ co' = [co EXCEPT ![r] =
                    [pc |-> "insert", req |-> co[r].req, validation |-> co[r].validation,
                     discountAmount |-> co[r].discountAmount,
                     orderNumber |-> co[r].orderNumber,
                     totalAmount |-> co[r].totalAmount,
                     razorpayOrderId |-> payments + 1,
                     paymentStatus |-> "pending", status |-> "pending"]]
            \/ /\ payments' = payments
               /\ co' = [co EXCEPT ![r] =
                    [pc |-> "done", req |-> co[r].req, validation |-> co[r].validation,
                     out |-> [status |-> 500, error |-> "Failed to create payment order"]]]
       ELSE /\ payments' = payments
            /\ co' = [co EXCEPT ![r] =
                 [pc |-> "insert", req |-> co[r].req, validation |-> co[r].validation,
                  discountAmount |-> co[r].discountAmount,
                  orderNumber |-> co[r].orderNumber,
                  totalAmount |-> co[r].totalAmount,
                  razorpayOrderId |-> Null,
                  paymentStatus |-> "completed", status |-> "paid"]]
  /\ UNCHANGED <<admin, sync, discounts, orders, products, carts, now, res>>

CheckoutInsert(r) ==
  /\ co[r].pc = "insert"
  /\ orders' = Append(orders,
       [orderNumber |-> co[r].orderNumber,
        customerId |-> co[r].req.customerId,
        customerEmail |-> co[r].req.customerEmail,
        subtotal |-> co[r].req.subtotal,
        discountAmount |-> co[r].discountAmount,
        total |-> co[r].totalAmount,
        shippingAmount |-> co[r].req.shippingAmount,
        couponCode |-> co[r].req.couponCode,
        paymentMethod |-> co[r].req.paymentMethod,
        paymentStatus |-> co[r].paymentStatus,
        status |-> co[r].status,
        razorpayOrderId |-> co[r].razorpayOrderId])
  /\ co' = [co EXCEPT ![r].pc = "cart"]
  /\ UNCHANGED <<admin, sync, discounts, products, carts, payments, now, res>>

CheckoutCart(r) ==
  /\ co[r].pc = "cart"
  /\ carts' = IF co[r].req.customerId # "none"
                THEN carts \ {co[r].req.customerId} ELSE carts
  /\ co' = [co EXCEPT ![r] =
       [pc |-> "done", req |-> co[r].req, validation |-> co[r].validation,
        out |-> [status |-> 201, orderNumber |-> co[r].orderNumber,
                 total |-> co[r].totalAmount]]]
  /\ UNCHANGED <<admin, sync, discounts, orders, products, payments, now, res>>

CheckoutRespond(r) ==
  /\ co[r].pc = "done"
  /\ co' = [co EXCEPT ![r] = CoIdle]
  /\ UNCHANGED <<admin, sync, discounts, orders, products, carts, payments, now, res>>

(***************************************************************************)
(* syncDiscountStatuses, the job agenda runs every minute and start() runs *)
(* once: it reads the clock, then awaits two updateMany calls.             *)
(***************************************************************************)
SyncIdle == [pc |-> "idle"]

\* the first filter with $lte in place of $lt
ExpiredForSweepInclusive(d, t) ==
  d.status = "active" /\ d.expiresAt # Null /\ d.expiresAt <= t

\* {status: "active", expiresAt: {$lt: now, $ne: null}}
ExpiredForSweep(d, t) ==
  d.status = "active" /\ d.expiresAt # Null /\ d.expiresAt < t

\* the second filter without its $or on startsAt
DueForSweepAlways(d, t) == d.status = "scheduled"

\* {status: "scheduled", $or: [{startsAt: null}, {startsAt: {$lte: now}}]}
DueForSweep(d, t) ==
  d.status = "scheduled" /\ (d.startsAt = Null \/ d.startsAt <= t)

\* updateMany(..., {$set: {status: "disabled", updatedAt: now}})
DisableExpired(ds, t) ==
  [i \in 1..Len(ds) |->
     IF ExpiredForSweep(ds[i], t)
       THEN [ds[i] EXCEPT !.status = "disabled", !.updatedAt = t]
       ELSE ds[i]]

\* updateMany(..., {$set: {status: "active", updatedAt: now}})
ActivateDue(ds, t) ==
  [i \in 1..Len(ds) |->
     IF DueForSweep(ds[i], t)
       THEN [ds[i] EXCEPT !.status = "active", !.updatedAt = t]
       ELSE ds[i]]

\* one whole run at the clock reading t
syncDiscountStatuses(ds, t) == ActivateDue(DisableExpired(ds, t), t)

\* const now = new Date()
SyncStart ==
  /\ sync = SyncIdle
  /\ sync' = [pc |-> "expire", now |-> now]
  /\ UNCHANGED <<admin, discounts, orders, products, carts, payments, now, res, co>>

SyncExpire ==
  /\ sync.pc = "expire"
  /\ discounts' = DisableExpired(discounts, sync.now)
  /\ sync' = [pc |-> "activate", now |-> sync.now]
  /\ UNCHANGED <<admin, orders, products, carts, payments, now, res, co>>

SyncActivate ==
  /\ sync.pc = "activate"
  /\ discounts' = ActivateDue(discounts, sync.now)
  /\ sync' = SyncIdle
  /\ UNCHANGED <<admin, orders, products, carts, payments, now, res, co>>

(***************************************************************************)
(* The admin handlers createDiscount and updateDiscount, one step per      *)
(* await: the findOne that looks for the code, then the write.  A discount *)
(* is addressed by its position in the store.                              *)
(***************************************************************************)
AdminIdle == [pc |-> "idle"]
Absent == -2                  \* a date key the request body does not carry
AbsentStr == <<"absent">>     \* a string key the request body does not carry

\* the refine of createSchema and updateSchema: startsAt must be before expiresAt
DatesInOrder(startsAt, expiresAt) ==
  ~(startsAt \notin {Absent, Null} /\ expiresAt \notin {Absent, Null}
      /\ startsAt >= expiresAt)

\* findOne({code: {$regex: ^code$, i}, _id: {$ne: id}}) finds a document
CodeTaken(ds, code, id) ==
  \E j \in 1..Len(ds) : j # id /\ RegexMatchI(code, ds[j].code)

\* status: z.enum([...]).default("active") of discountBaseSchema
DefaultStatus(status) == IF status = "absent" THEN "active" ELSE status

\* the same key under discountBaseSchema.partial(): whether the default still
\* fills an absent status depends on the zod release the build resolves
PartialStatuses(status) ==
  IF status = "absent" THEN {"absent", "active"} ELSE {status}

\* the status createDiscount stores
CreateStatus(status, startsAt, t) ==
  IF status = "active" /\ startsAt # Null /\ startsAt > t THEN "scheduled"
  ELSE status

\* the status rule of updateDiscount fires
ReschedulesOnUpdate(bodyStatus, startsAt, t) ==
  bodyStatus # "disabled" /\ startsAt \notin {Absent, Null} /\ startsAt > t

\* the document after findOneAndUpdate({$set: update})
UpdatedDiscount(d, up, t) ==
  [d EXCEPT
     !.code = IF up.code = AbsentStr THEN @ ELSE up.code,
     !.startsAt = IF up.body.startsAt = Absent THEN @ ELSE up.body.startsAt,
     !.expiresAt = IF up.body.expiresAt = Absent THEN @ ELSE up.body.expiresAt,
     !.status = IF ReschedulesOnUpdate(up.parsedStatus, up.body.startsAt, t)
                  THEN "scheduled"
                ELSE IF up.parsedStatus = "absent" THEN @ ELSE up.parsedStatus,
     !.updatedAt = up.updatedAt]

CreateCheck(a, Bodies) ==
  /\ admin[a].pc = "idle"
  /\ \E body \in Bodies :
       LET code == toUpperCase(trim(body.code))
       IN admin' = [admin EXCEPT ![a] =
            IF ~DatesInOrder(body.startsAt, body.expiresAt)
              THEN [pc |-> "done", status |-> 400]
            ELSE IF FindDiscountByCode(discounts, code) # 0
              THEN [pc |-> "done", status |-> 409]
            ELSE [pc |-> "insert", body |-> body, code |-> code]]
  /\ UNCHANGED <<discounts, orders, products, carts, payments, now, res, co, sync>>

CreateInsert(a) ==
  /\ admin[a].pc = "insert"
  /\ discounts' = Append(discounts,
       [code |-> admin[a].code, type |-> admin[a].body.type,
        value |-> admin[a].body.value, productIds |-> {}, categoryIds |-> {},
        minOrderAmount |-> Null, maxUsage |-> Null, usedCount |-> 0,
        startsAt |-> admin[a].body.startsAt, expiresAt |-> admin[a].body.expiresAt,
        status |-> CreateStatus(DefaultStatus(admin[a].body.status),
                                admin[a].body.startsAt, now),
        firstOrderOnly |-> FALSE, referralCode |-> NullStr, updatedAt |-> now])
  /\ admin' = [admin EXCEPT ![a] = [pc |-> "done", status |-> 201]]
  /\ UNCHANGED <<orders, products, carts, payments, now, res, co, sync>>

UpdateCheck(a, Ids, Bodies) ==
  /\ admin[a].pc = "idle"
  /\ \E id \in Ids, body \in Bodies :
     \E parsedStatus \in PartialStatuses(body.status) :
       LET code == IF body.code = AbsentStr THEN AbsentStr
                   ELSE toUpperCase(trim(body.code))
       IN admin' = [admin EXCEPT ![a] =
            IF ~DatesInOrder(body.startsAt, body.expiresAt)
              THEN [pc |-> "done", status |-> 400]
            ELSE IF code # AbsentStr /\ CodeTaken(discounts, code, id)
              THEN [pc |-> "done", status |-> 409]
            ELSE [pc |-> "write", id |-> id, body |-> body, code |-> code,
                  parsedStatus |-> parsedStatus, updatedAt |-> now]]
  /\ UNCHANGED <<discounts, orders, products, carts, payments, now, res, co, sync>>

UpdateWrite(a) ==
  /\ admin[a].pc = "write"
  /\ IF admin[a].id \in 1..Len(discounts)
       THEN /\ discounts' = [discounts EXCEPT ![admin[a].id] =
                  UpdatedDiscount(@, admin[a], now)]
            /\ admin' = [admin EXCEPT ![a] = [pc |-> "done", status |-> 200]]
       ELSE /\ discounts' = discounts
            /\ admin' = [admin EXCEPT ![a] = [pc |-> "done", status |-> 404]]
  /\ UNCHANGED <<orders, products, carts, payments, now, res, co, sync>>

AdminRespond(a) ==
  /\ admin[a].pc = "done"
  /\ admin' = [admin EXCEPT ![a] = AdminIdle]
  /\ UNCHANGED <<discounts, orders, products, carts, payments, now, res, co, sync>>

(***************************************************************************)
(* Bounds and the input domains the specifications draw from.              *)
(***************************************************************************)
MaxTime == 2          \* the clock reads 0..MaxTime
MaxLines == 2         \* cart lines per request
MaxUsage == 1         \* maxUsage and usedCount range over 0..MaxUsage
MaxOrders == 2        \* orders in the store, the seeded one included
MaxCheckouts == 1     \* createStoreOrder request slots
MaxRacers == 2        \* createStoreOrder requests in flight at once in the races
MaxAdmins == 2        \* admin requests in flight at once
MaxDiscounts == 3     \* discounts in the store

Times == 0..MaxTime
Stamps == {Null, 1}   \* startsAt / expiresAt: absent, or strictly inside the clock's range
ReqSlots == 1..MaxCheckouts
RaceSlots == 1..MaxRacers
AdminSlots == 1..MaxAdmins

SeqsUpTo(S, n) == UNION {[1..k -> S] : k \in 0..n}

Line(p, q, u) == [productId |-> p, quantity |-> q, unitPrice |-> u]

Statuses == {"active", "disabled", "scheduled"}
StoredStatuses == Statuses \cup {"none"}     \* "none": the document has no status field

\* p1 is in category c1, p2 in c2, p3 has no category; "zz" is no ObjectId
ProductCatalog ==
  [id \in {"p1", "p2", "p3"} |->
     IF id = "p1" THEN "c1" ELSE IF id = "p2" THEN "c2" ELSE "none"]

\* one earlier order, by the customer "A"
SeedOrders ==
  << [orderNumber |-> [date |-> 0, seq |-> 1], customerId |-> "none",
      customerEmail |-> <<"A">>, subtotal |-> 10000, discountAmount |-> 0,
      total |-> 10000, shippingAmount |-> 0, couponCode |-> NullStr,
      paymentMethod |-> "cod", paymentStatus |-> "completed", status |-> "paid",
      razorpayOrderId |-> Null] >>

\* a second discount that is always in the catalog: B, 10 % off everything
BaselineDoc ==
  [code |-> <<"B">>, type |-> "percentage", value |-> 10,
   productIds |-> {}, categoryIds |-> {}, minOrderAmount |-> Null,
   maxUsage |-> Null, usedCount |-> 0, startsAt |-> Null, expiresAt |-> Null,
   status |-> "active", firstOrderOnly |-> FALSE, referralCode |-> NullStr, updatedAt |-> 0]

UsagePairs == {u \in ({Null} \cup (1..MaxUsage)) \X (0..MaxUsage) :
                 u[1] = Null => u[2] = 0}

\* discounts "A" that vary in every gate of the evaluator
GateDocs ==
  { [code |-> <<"A">>, type |-> "fixed", value |-> 5000,
     productIds |-> pids, categoryIds |-> {}, minOrderAmount |-> m,
     maxUsage |-> u[1], usedCount |-> u[2], startsAt |-> sa, expiresAt |-> ea,
     status |-> st, firstOrderOnly |-> fo, referralCode |-> rc, updatedAt |-> 0] :
     pids \in {{}, {"p1"}}, m \in {Null, 10000}, u \in UsagePairs,
     sa \in Stamps, ea \in Stamps, st \in StoredStatuses,
     fo \in BOOLEAN, rc \in {NullStr, <<"r">>} }

\* discounts "A" that vary in type, value, threshold and scope
AmountDocs ==
  { [code |-> <<"A">>, type |-> tv[1], value |-> tv[2],
     productIds |-> sc[1], categoryIds |-> sc[2], minOrderAmount |-> m,
     maxUsage |-> Null, usedCount |-> 0, startsAt |-> Null, expiresAt |-> Null,
     status |-> "active", firstOrderOnly |-> FALSE, referralCode |-> NullStr, updatedAt |-> 0] :
     tv \in ({"percentage"} \X {0, 10, 15, 100, 150})
            \cup ({"fixed"} \X {0, 5000, 30000}),
     sc \in {<<{}, {}>>, <<{"p1"}, {}>>, <<{}, {"c1"}>>},
     m \in {Null, 0, 1035, 10000} }

\* discounts "A" for the checkout commit: scope, type and the customer gates
CheckoutDocs ==
  { [code |-> <<"A">>, type |-> tv[1], value |-> tv[2],
     productIds |-> sc[1], categoryIds |-> sc[2], minOrderAmount |-> Null,
     maxUsage |-> Null, usedCount |-> 0, startsAt |-> Null, expiresAt |-> Null,
     status |-> "active", firstOrderOnly |-> fo, referralCode |-> rc, updatedAt |-> 0] :
     tv \in {<<"percentage", 10>>, <<"fixed", 5000>>},
     sc \in {<<{}, {}>>, <<{"p1"}, {}>>, <<{}, {"c1"}>>},
     fo \in BOOLEAN, rc \in {NullStr, <<"r">>} }

\* discounts for the product badges: 10 % and 20 %, 5.00 and 50.00 off, without
\* a scope, scoped to p1, to the category c1, or to p2 and the category c1
BadgeDocs ==
  { [code |-> <<"A">>, type |-> tv[1], value |-> tv[2],
     productIds |-> sc[1], categoryIds |-> sc[2], minOrderAmount |-> Null,
     maxUsage |-> Null, usedCount |-> 0, startsAt |-> Null, expiresAt |-> Null,
     status |-> "active", firstOrderOnly |-> FALSE, referralCode |-> NullStr, updatedAt |-> 0] :
     tv \in {<<"percentage", 10>>, <<"percentage", 20>>,
             <<"fixed", 500>>, <<"fixed", 5000>>},
     sc \in {<<{}, {}>>, <<{"p1"}, {}>>, <<{}, {"c1"}>>, <<{"p2"}, {"c1"}>>} }

\* discounts "A" for the status sweep: every cached status against every
\* position of the start and the expiry on the clock
SweepDocs ==
  { [code |-> <<"A">>, type |-> "fixed", value |-> 5000,
     productIds |-> {}, categoryIds |-> {}, minOrderAmount |-> Null,
     maxUsage |-> Null, usedCount |-> 0, startsAt |-> sa, expiresAt |-> ea,
     status |-> st, firstOrderOnly |-> FALSE, referralCode |-> NullStr,
     updatedAt |-> 0] :
     sa \in {Null, 0, 1}, ea \in Stamps, st \in StoredStatuses }

SweepCodes == {<<" ", "a">>, <<"b", "b">>}
SweepEmails == {NullStr, <<"b">>}

\* unit prices are multiples of 0.25, so the sums of the lines are exact in binary64
CartLines == {Line("p1", 2, 4000), Line("p2", 1, 10000), Line("zz", 1, 2500)}
Carts == SeqsUpTo(CartLines, MaxLines)
OneLineCarts == {<<Line("p1", 2, 4000)>>, <<Line("p2", 1, 10000)>>}

GateCodes == {<<" ", "a">>, <<"b", "b">>, <<" ">>}
ErrorCodes == GateCodes \cup {<<"z">>}     \* "z" is the code of no discount
GateEmails == {NullStr, <<"a">>, <<"b">>, <<" ">>}
GateRefs == {NullStr, <<"R">>, <<"b">>}
GateSubtotals == {5000, 18000}
AmountSubtotals == {0, 150, 1035, 8000, 18000}
IdLists == {<<"p1">>, <<"p2", "p1">>, <<"zz">>, <<>>}

\* discounts "A" for the races: 10 % off, capped at one use or uncapped, for
\* every customer or for first orders only
RaceDocs ==
  { [code |-> <<"A">>, type |-> "percentage", value |-> 10,
     productIds |-> {}, categoryIds |-> {}, minOrderAmount |-> Null,
     maxUsage |-> mu, usedCount |-> 0, startsAt |-> Null, expiresAt |-> Null,
     status |-> "active", firstOrderOnly |-> fo, referralCode |-> NullStr,
     updatedAt |-> 0] :
     mu \in {Null, 1}, fo \in BOOLEAN }

\* checkout requests of the new customer "b": with and without the coupon, a
\* client discount of 0 or 10.00, a total that matches the sums or does not
RaceReqs ==
  { [customerId |-> "none", customerEmail |-> <<"b">>,
     items |-> <<Line("p1", 2, 4000)>>, subtotal |-> 10000,
     discountAmount |-> cd, total |-> tt, couponCode |-> cc,
     paymentMethod |-> pm, shippingAmount |-> 0] :
     cd \in {0, 1000}, tt \in {9000, 100}, cc \in {NullStr, <<"a">>},
     pm \in {"cod", "razorpay"} }

\* checkout requests of "u1" that apply the coupon "a" with a discount of 10.00
CouponReqs ==
  { [customerId |-> "u1", customerEmail |-> em,
     items |-> <<Line("p1", 2, 4000)>>, subtotal |-> 10000,
     discountAmount |-> 1000, total |-> 9000, couponCode |-> <<"a">>,
     paymentMethod |-> pm, shippingAmount |-> 0] :
     em \in {<<"a">>, <<"b">>}, pm \in {"cod", "razorpay"} }

CheckoutReqs ==
  { [customerId |-> cid, customerEmail |-> em, items |-> it, subtotal |-> 10000,
     discountAmount |-> cd, total |-> 10000 - cd, couponCode |-> cc,
     paymentMethod |-> pm, shippingAmount |-> 0] :
     cid \in {"none", "u1"}, em \in {<<"a">>, <<"b">>}, it \in OneLineCarts \cup {<<>>},
     cd \in {0, 1000}, cc \in {NullStr, <<"a">>}, pm \in {"cod", "razorpay"} }

(***************************************************************************)
(* Specifications.                                                         *)
(***************************************************************************)
\* time passes
Tick ==
  /\ now < MaxTime
  /\ now' = now + 1
  /\ UNCHANGED <<admin, discounts, orders, products, carts, payments, res, co, sync>>

\* the createStoreOrder requests that may still insert an order
InFlight == Cardinality({r \in DOMAIN co : co[r].pc \notin {"idle", "done"}})

InitSlots(ds, Slots) ==
  /\ discounts = ds
  /\ orders = SeedOrders
  /\ products = ProductCatalog
  /\ carts = {"u1"}
  /\ payments = 0
  /\ now \in Times
  /\ res = Idle
  /\ co = [r \in Slots |-> CoIdle]
  /\ sync = SyncIdle
  /\ admin = [a \in AdminSlots |-> AdminIdle]

InitWith(ds) == InitSlots(ds, ReqSlots)

\* the evaluator's gates, over every combination of the gate fields
InitGates == \E d \in GateDocs : InitWith(<<d, BaselineDoc>>)

NextGates ==
  \/ Validate(GateCodes, GateSubtotals, OneLineCarts, GateEmails, GateRefs)
  \/ AvailableOffers(GateSubtotals, OneLineCarts, GateEmails, GateRefs)
  \/ DiscountsForProducts(IdLists)
  \/ Respond

SpecGates == InitGates /\ [][NextGates]_vars

\* the amounts, over types, values, thresholds, scopes and carts
InitAmounts == \E d \in AmountDocs : InitWith(<<d>>)

NextAmounts ==
  \/ Validate({<<"a">>}, AmountSubtotals, Carts, {NullStr}, {NullStr})
  \/ AvailableOffers(AmountSubtotals, Carts, {NullStr}, {NullStr})
  \/ DiscountsForProducts(IdLists)
  \/ Respond

SpecAmounts == InitAmounts /\ [][NextAmounts]_vars

\* the checkout commit next to the preview
InitCheckout == \E d \in CheckoutDocs : InitWith(<<d>>)

Checkout(r, Reqs) ==
  \/ Len(orders) < MaxOrders /\ CheckoutValidate(r, Reqs)
  \/ CheckoutNumber(r)
  \/ CheckoutPay(r)
  \/ CheckoutInsert(r)
  \/ CheckoutCart(r)
  \/ CheckoutRespond(r)

NextCheckout ==
  \/ Validate({<<"a">>}, {10000}, OneLineCarts, {NullStr, <<"a">>, <<"b">>}, {NullStr, <<"R">>})
  \/ Respond
  \/ \E r \in ReqSlots : Checkout(r, CheckoutReqs)

SpecCheckout == InitCheckout /\ [][NextCheckout]_vars

\* the badge of a product, over catalogs of three discounts in every order
InitBadges ==
  \E a \in BadgeDocs, b \in BadgeDocs, c \in BadgeDocs :
    InitWith(<<[a EXCEPT !.code = <<"A">>], [b EXCEPT !.code = <<"B">>],
               [c EXCEPT !.code = <<"C">>]>>)

NextBadges ==
  \/ DiscountsForProducts(IdLists)
  \/ Respond

SpecBadges == InitBadges /\ [][NextBadges]_vars

\* the status sweep next to the clock and the store endpoints
InitSweep == \E d \in SweepDocs : InitWith(<<d, BaselineDoc>>)

NextSweep ==
  \/ Validate(SweepCodes, {18000}, OneLineCarts, SweepEmails, {NullStr})
  \/ AvailableOffers({18000}, OneLineCarts, SweepEmails, {NullStr})
  \/ DiscountsForProducts(IdLists)
  \/ Respond
  \/ SyncStart
  \/ SyncExpire
  \/ SyncActivate
  \/ Tick

SpecSweep == InitSweep /\ [][NextSweep]_vars

\* the admin's edits of one discount's status and dates, between sweeps
StatusBodies ==
  { [code |-> AbsentStr, status |-> st, startsAt |-> sa, expiresAt |-> ea] :
      st \in {"absent", "active", "disabled"}, sa \in {Absent, Null, MaxTime},
      ea \in {Absent, 1} }

AdminDocs == {d \in SweepDocs : d.status # "none" /\ d.startsAt # 0}

\* no admin request is in flight
AdminQuiet == \A a \in DOMAIN admin : admin[a].pc = "idle"

InitAdmin == \E d \in AdminDocs : InitWith(<<d>>)

NextAdmin ==
  \/ AdminQuiet /\ \E a \in AdminSlots : UpdateCheck(a, 1..2, StatusBodies)
  \/ \E a \in AdminSlots : UpdateWrite(a)
  \/ \E a \in AdminSlots : AdminRespond(a)
  \/ SyncStart
  \/ SyncExpire
  \/ SyncActivate
  \/ Tick

SpecAdmin == InitAdmin /\ [][NextAdmin]_vars

\* the admin's creations and renamings, several requests in flight
CreateBodies ==
  { [code |-> c, type |-> "fixed", value |-> 5000, status |-> st,
     startsAt |-> sa, expiresAt |-> Null] :
      c \in {<<"a">>, <<"A", " ">>, <<"b">>}, st \in {"absent", "disabled"},
      sa \in {Null, MaxTime} }

CodeBodies ==
  { [code |-> c, status |-> "absent", startsAt |-> Absent, expiresAt |-> Absent] :
      c \in {<<"a">>, <<"b">>} }

\* the createDiscount requests that may still insert a discount
Inserting == Cardinality({a \in DOMAIN admin : admin[a].pc = "insert"})

InitCodes == InitWith(<<BaselineDoc>>)

NextCodes ==
  \/ /\ Len(discounts) + Inserting < MaxDiscounts
     /\ \E a \in AdminSlots : CreateCheck(a, CreateBodies)
  \/ \E a \in AdminSlots : CreateInsert(a)
  \/ \E a \in AdminSlots : UpdateCheck(a, 1..MaxDiscounts, CodeBodies)
  \/ \E a \in AdminSlots : UpdateWrite(a)
  \/ \E a \in AdminSlots : AdminRespond(a)
  \/ Tick

SpecCodes == InitCodes /\ [][NextCodes]_vars

\* the evaluator's failures, with the store reachable and unreachable
InitErrors == \E d \in GateDocs : InitWith(<<d, BaselineDoc>>)

NextErrors ==
  \/ Validate(ErrorCodes, GateSubtotals, OneLineCarts, GateEmails, GateRefs)
  \/ ValidateStoreDown(ErrorCodes, {5000}, {<<Line("p1", 2, 4000)>>}, {NullStr}, {NullStr})
  \/ Respond

SpecErrors == InitErrors /\ [][NextErrors]_vars

\* checkout commits in flight at once, and one after the other
InitRace == \E d \in RaceDocs : InitSlots(<<d>>, RaceSlots)

NextRace ==
  \E r \in RaceSlots :
    \/ Len(orders) + InFlight <= MaxOrders /\ CheckoutValidate(r, RaceReqs)
    \/ CheckoutNumber(r)
    \/ CheckoutPay(r)
    \/ CheckoutInsert(r)
    \/ CheckoutCart(r)
    \/ CheckoutRespond(r)

SpecRace == InitRace /\ [][NextRace]_vars

\* checkouts of the signed-in customer "u1" with the coupon "a"
InitCoupon == \E d \in CheckoutDocs : InitWith(<<d>>)

NextCoupon ==
  \E r \in ReqSlots :
    \/ Len(orders) + InFlight < MaxOrders /\ CheckoutValidate(r, CouponReqs)
    \/ CheckoutNumber(r)
    \/ CheckoutPay(r)
    \/ CheckoutInsert(r)
    \/ CheckoutCart(r)
    \/ CheckoutRespond(r)

SpecCoupon == InitCoupon /\ [][NextCoupon]_vars

\* the whole system from a seeded store
Init == InitWith(<<BaselineDoc>>)

Next ==
  \/ Validate({<<"b">>}, {10000}, OneLineCarts, {NullStr}, {NullStr})
  \/ AvailableOffers({10000}, OneLineCarts, {NullStr}, {NullStr})
  \/ DiscountsForProducts(IdLists)
  \/ Respond
  \/ \E r \in ReqSlots : Checkout(r, CheckoutReqs)

Spec == Init /\ [][Next]_vars

(***************************************************************************)
(* Properties.  The definitions below state what the specification of the  *)
(* engine says, in its own terms, next to what the handlers return.        *)
(***************************************************************************)
EqIgnoreCase(a, b) ==
  Len(a) = Len(b) /\ \A i \in 1..Len(a) : UpperOf(a[i]) = UpperOf(b[i])

IsBlank(str) == str = NullStr \/ \A i \in 1..Len(str) : str[i] = " "

HasPriorOrder(email) ==
  \E i \in 1..Len(orders) : EqIgnoreCase(orders[i].customerEmail, email)

\* the customer fails the first-order gate of d
FirstOrderGateFails(d, email) ==
  d.firstOrderOnly /\ (IsBlank(email) \/ HasPriorOrder(email))

\* the customer fails the referral gate of d
ReferralGateFails(d, ref) ==
  d.referralCode # NullStr /\ (IsBlank(ref) \/ ~EqIgnoreCase(ref, d.referralCode))

RECURSIVE SumOver(_, _)
SumOver(items, I) ==
  IF I = {} THEN 0
  ELSE LET i == CHOOSE x \in I : TRUE
       IN items[i].quantity * items[i].unitPrice + SumOver(items, I \ {i})

\* the applicable subtotal as the scope rule defines it
ScopedSubtotal(d, subtotal, items) ==
  IF d.productIds # {}
    THEN SumOver(items, {i \in 1..Len(items) : items[i].productId \in d.productIds})
  ELSE IF d.categoryIds # {}
    THEN SumOver(items, {i \in 1..Len(items) :
                           /\ items[i].productId \in DOMAIN products
                           /\ products[items[i].productId] \in d.categoryIds})
  ELSE subtotal

Minimum(S) == CHOOSE x \in S : \A y \in S : x <= y

ValidateServed == res.op = "validate" /\ res.out.status = 200 /\ res.discount # 0

Listed(out, d) ==
  \E k \in 1..Len(out.offers) : out.offers[k].code = toUpperCase(trim(d.code))

(* C1 ---------------------------------------------------------------------*)
ReasonOf(message) ==
  CASE message = "This coupon is no longer active" -> 1
    [] message = "This coupon is not yet active" -> 2
    [] message = "This coupon has expired" -> 3
    [] message = "This coupon has reached its usage limit" -> 4
    [] message = "Enter your email to use this first-order offer" -> 5
    [] message = "This offer is for first-time customers only" -> 5
    [] message = "This offer requires a referral link" -> 6
    [] message = "Min order required" -> 7
    [] message = "This coupon does not apply to any items in your cart" -> 8
    [] OTHER -> 0

\* the checks of the evaluator that fail for the request in res, by their rank
FailingChecks(d) ==
  {n \in 1..8 :
     \/ n = 1 /\ d.status = "disabled"
     \/ n = 2 /\ d.startsAt # Null /\ d.startsAt > now
     \/ n = 3 /\ d.expiresAt # Null /\ d.expiresAt < now
     \/ n = 4 /\ d.maxUsage # Null /\ d.usedCount >= d.maxUsage
     \/ n = 5 /\ FirstOrderGateFails(d, res.customerEmail)
     \/ n = 6 /\ ReferralGateFails(d, res.customerReferralCode)
     \/ n = 7 /\ d.minOrderAmount # Null /\ res.subtotal < d.minOrderAmount
     \/ n = 8 /\ res.applicableSubtotal <= 0}

\* C1: validateDiscountForOrder returns valid exactly when no check fails, and
\* otherwise reports the first failing check in the order disabled, not yet
\* active, expired, usage exhausted, not first order, referral required, below
\* minimum, not applicable.
C1_FirstFailingCheckReported ==
  ValidateServed =>
    LET failing == FailingChecks(discounts[res.discount])
    IN IF failing = {} THEN res.out.valid
       ELSE ~res.out.valid /\ ReasonOf(res.out.message) = Minimum(failing)

\* several checks fail and the expiry, not the later ones, is reported
C1_Witness ==
  /\ ValidateServed
  /\ Cardinality(FailingChecks(discounts[res.discount])) >= 3
  /\ ~res.out.valid
  /\ res.out.message = "This coupon has expired"

(* C2 ---------------------------------------------------------------------*)
\* C2: an eligible result has 0 <= discountAmount <= applicableSubtotal, for
\* percentage and fixed discounts of every stored non-negative value.
C2_AmountWithinApplicable ==
  (ValidateServed /\ res.out.valid) =>
    /\ 0 <= res.out.discountAmount
    /\ res.out.discountAmount <= res.applicableSubtotal

(* C3 ---------------------------------------------------------------------*)
\* C3: a discount whose expiresAt is in the past is never usable, whatever its
\* cached status: validate rejects it, the available offers do not list it and
\* the discounts for products do not return it.
C3_ExpiredNeverUsable ==
  \A i \in 1..Len(discounts) :
    LET d == discounts[i]
    IN (d.expiresAt # Null /\ d.expiresAt < now) =>
         /\ (res.op = "validate" /\ res.discount = i) => ~res.out.valid
         /\ res.op = "available" => ~Listed(res.out, d)
         /\ res.op = "forProducts" =>
              \A id \in DOMAIN res.out.result :
                res.out.result[id].code # toUpperCase(trim(d.code))

\* the offers are listed while an expired discount still carries status active
C3_Witness ==
  /\ res.op = "available"
  /\ Len(res.out.offers) >= 1
  /\ discounts[1].expiresAt # Null /\ discounts[1].expiresAt < now
  /\ discounts[1].status = "active"
  /\ ~UsageExhausted(discounts[1].maxUsage, discounts[1].usedCount)

(* C4 ---------------------------------------------------------------------*)
\* the outcome of the request in res had the discount it found carried status st
OutcomeWithStatus(st) ==
  validateStoreDiscount([discounts EXCEPT ![res.discount].status = st], orders, now,
    res.code, res.subtotal, res.items, res.customerEmail,
    res.customerReferralCode).valid

\* C4 as stated: two discount records that differ only in status get the same
\* valid/invalid outcome from validate.
C4_StatusNeverDecides ==
  ValidateServed => \A st \in StoredStatuses : OutcomeWithStatus(st) = res.out.valid

\* C4 as amended: two discount records that differ only in status, neither of
\* them disabled, get the same valid/invalid outcome from validate.
C4_StatusOtherThanDisabledNeverDecides ==
  (ValidateServed /\ discounts[res.discount].status # "disabled") =>
    \A st \in StoredStatuses \ {"disabled"} : OutcomeWithStatus(st) = res.out.valid

\* a discount still cached as scheduled is accepted once its start has passed
C4_Witness ==
  /\ ValidateServed
  /\ res.out.valid
  /\ discounts[res.discount].status = "scheduled"
  /\ discounts[res.discount].startsAt # Null

(* C5 ---------------------------------------------------------------------*)
\* C5: validate computes applicableSubtotal as the full subtotal without a
\* scope, as the sum of the lines of the scoped products, or as the sum of the
\* lines whose resolved category is in categoryIds.
C5_ApplicableSubtotalFollowsScope ==
  ValidateServed =>
    res.applicableSubtotal =
      ScopedSubtotal(discounts[res.discount], res.subtotal, res.items)

(* C6 ---------------------------------------------------------------------*)
\* round-half-up to two decimals of base * value / 100, in paise
RoundHalfUp(base, value) == (base * value + 50) \div 100

\* C6: an eligible discountAmount is round-half-up(applicableSubtotal * value /
\* 100, 2) for a percentage and min(value, applicableSubtotal) for a fixed
\* discount.
C6_AmountFormula ==
  (ValidateServed /\ res.out.valid) =>
    LET d == discounts[res.discount]
    IN res.out.discountAmount =
         IF d.type = "percentage"
           THEN RoundHalfUp(res.applicableSubtotal, d.value)
           ELSE Min(d.value, res.applicableSubtotal)

(* C7 ---------------------------------------------------------------------*)
SameDecision(preview, commit) ==
  /\ preview.valid = commit.valid
  /\ preview.valid => preview.discountAmount = commit.discountAmount

\* C7: the preview endpoint and the checkout commit's re-validation reach the
\* same decision and amount for the same code, subtotal, lines, customer and
\* store state.
C7_PreviewAgreesWithCommit ==
  [][\A r \in ReqSlots :
       (co[r].pc = "idle" /\ co'[r].pc # "idle" /\ co'[r].validation # NoValidation) =>
         SameDecision(
           validateStoreDiscount(discounts, orders, now, co'[r].req.couponCode,
             co'[r].req.subtotal, co'[r].req.items, co'[r].req.customerEmail, NullStr),
           co'[r].validation)]_vars

(* C8 ---------------------------------------------------------------------*)
\* C8: a firstOrderOnly discount is never eligible when customerEmail is
\* missing or blank, or when an order with that email (ignoring case) exists.
C8_FirstOrderOnlyGate ==
  (res.op = "validate" /\ res.discount # 0
     /\ FirstOrderGateFails(discounts[res.discount], res.customerEmail)) =>
    ~res.out.valid

\* the customer "a" is turned away because of the order of "A"
C8_Witness ==
  /\ ValidateServed
  /\ discounts[res.discount].firstOrderOnly
  /\ res.customerEmail = <<"a">>
  /\ ~res.out.valid
  /\ res.out.message = "This offer is for first-time customers only"

(* C9 ---------------------------------------------------------------------*)
\* C9: the available offers never list a discount whose firstOrderOnly gate or
\* referralCode gate the customer fails.
C9_ListingAppliesGates ==
  (res.op = "available" /\ res.out.status = 200) =>
    \A i \in 1..Len(discounts) :
      (\/ FirstOrderGateFails(discounts[i], res.customerEmail)
       \/ ReferralGateFails(discounts[i], res.customerReferralCode)) =>
        ~Listed(res.out, discounts[i])

(* C10 --------------------------------------------------------------------*)
\* every condition of the offer list other than the order minimum holds for d
OtherConditionsMet(d) ==
  /\ d.status \in {"active", "scheduled"}
  /\ d.expiresAt = Null \/ d.expiresAt > now
  /\ d.startsAt = Null \/ d.startsAt <= now
  /\ d.maxUsage = Null \/ d.usedCount < d.maxUsage
  /\ ~FirstOrderGateFails(d, res.customerEmail)
  /\ ~ReferralGateFails(d, res.customerReferralCode)
  /\ ScopedSubtotal(d, res.subtotal, res.items) > 0

\* C10: the available offers never omit a discount only because subtotal <
\* minOrderAmount: a discount that meets its other conditions is listed locked
\* with gapAmount = minOrderAmount - subtotal, and an offer is locked only when
\* subtotal < minOrderAmount.
C10_LockedNotOmitted ==
  (res.op = "available" /\ res.out.status = 200) =>
    /\ \A i \in 1..Len(discounts) :
         LET d == discounts[i]
         IN (OtherConditionsMet(d) /\ d.minOrderAmount # Null
               /\ res.subtotal < d.minOrderAmount) =>
              \E k \in 1..Len(res.out.offers) :
                /\ res.out.offers[k].code = toUpperCase(trim(d.code))
                /\ res.out.offers[k].locked
                /\ res.out.offers[k].gapAmount = d.minOrderAmount - res.subtotal
    /\ \A k \in 1..Len(res.out.offers) :
         res.out.offers[k].locked =>
           /\ res.out.offers[k].minOrderAmount # Null
           /\ res.subtotal < res.out.offers[k].minOrderAmount

\* a discount below its minimum is listed locked with the gap
C10_Witness ==
  /\ res.op = "available"
  /\ \E k \in 1..Len(res.out.offers) :
       /\ res.out.offers[k].locked
       /\ res.out.offers[k].gapAmount = 5000
       /\ res.subtotal = 5000

(* C11 --------------------------------------------------------------------*)
\* C11: a locked offer carries the amount of a subtotal equal to minOrderAmount,
\* round-half-up(minOrderAmount * value / 100, 2) for a percentage and
\* min(value, minOrderAmount) for a fixed discount; an unlocked offer carries
\* the amount validate computes from the applicable subtotal.
C11_LockedAmountFromMinimum ==
  (res.op = "available" /\ res.out.status = 200) =>
    \A i \in 1..Len(discounts) : \A k \in 1..Len(res.out.offers) :
      LET d == discounts[i]
          offer == res.out.offers[k]
      IN offer.code = toUpperCase(trim(d.code)) =>
           offer.discountAmount =
             IF offer.locked
               THEN IF d.type = "percentage"
                      THEN RoundHalfUp(d.minOrderAmount, d.value)
                      ELSE Min(d.value, d.minOrderAmount)
               ELSE DiscountAmountOf(d, ScopedSubtotal(d, res.subtotal, res.items))

(* C12 - C15 --------------------------------------------------------------*)
BadgeServed == res.op = "forProducts" /\ res.out.status = 200

RequestedIds == {res.productIds[i] : i \in 1..Len(res.productIds)}

\* the running best for product id after the first k candidates of the catalog
RunningBest(id, k) ==
  BestFor(SubSeq(CatalogQuery(discounts, now), 1, k), now, id,
          ItemCategoryIds(products, RequestedIds), NoBest)

\* the k-th candidate of the catalog reaches the comparison with the running best
Considered(id, k) ==
  AppliesToProduct(CatalogQuery(discounts, now)[k], now, id,
                   ItemCategoryIds(products, RequestedIds))

\* the k-th candidate became the running best
Replaces(id, k) ==
  RunningBest(id, k).code = toUpperCase(trim(CatalogQuery(discounts, now)[k].code))

\* the discount applies to the product: the product is one of its productIds,
\* or it names no products and is unscoped or names the product's category
AppliesTo(d, id) ==
  \/ id \in d.productIds
  \/ /\ d.productIds = {}
     /\ \/ d.categoryIds = {}
        \/ id \in DOMAIN products /\ products[id] \in d.categoryIds

\* C12: a percentage candidate replaces the running best exactly when the best
\* is a fixed discount, whatever the two values, or a percentage discount of a
\* strictly smaller value; a percentage of equal value keeps the earlier one.
C12_PercentageCandidate ==
  BadgeServed =>
    \A id \in RequestedIds : \A k \in 2..Len(CatalogQuery(discounts, now)) :
      LET cand == CatalogQuery(discounts, now)[k]
          best == RunningBest(id, k - 1)
      IN (Considered(id, k) /\ cand.type = "percentage" /\ best # NoBest) =>
           (Replaces(id, k) <=>
              \/ best.type = "fixed"
              \/ best.type = "percentage" /\ best.value < cand.value)

\* C13: a fixed candidate never replaces a running best, percentage or fixed;
\* a fixed discount is returned only when it is the first applicable candidate
\* and no percentage candidate follows it.
C13_FixedCandidate ==
  BadgeServed =>
    \A id \in RequestedIds :
      /\ \A k \in 2..Len(CatalogQuery(discounts, now)) :
           (/\ Considered(id, k)
            /\ CatalogQuery(discounts, now)[k].type = "fixed"
            /\ RunningBest(id, k - 1) # NoBest) => ~Replaces(id, k)
      /\ (id \in DOMAIN res.out.result /\ res.out.result[id].type = "fixed") =>
           \E k \in 1..Len(CatalogQuery(discounts, now)) :
             /\ res.out.result[id].code =
                  toUpperCase(trim(CatalogQuery(discounts, now)[k].code))
             /\ \A j \in 1..(k - 1) : ~Considered(id, j)
             /\ \A j \in (k + 1)..Len(CatalogQuery(discounts, now)) :
                  ~(Considered(id, j)
                      /\ CatalogQuery(discounts, now)[j].type = "percentage")

\* C14: when a percentage discount and a fixed discount both apply to a
\* product, the discount returned for it is a percentage discount, in whatever
\* order the catalog returns the candidates.
C14_PercentageBeatsFixed ==
  BadgeServed =>
    \A id \in RequestedIds :
      (\E i, j \in 1..Len(discounts) :
         /\ AppliesTo(discounts[i], id) /\ discounts[i].type = "percentage"
         /\ AppliesTo(discounts[j], id) /\ discounts[j].type = "fixed") =>
        id \in DOMAIN res.out.result /\ res.out.result[id].type = "percentage"

\* C15: a discount is considered for a product only if it applies to it, the
\* result has an entry only for a product some discount applies to, and the
\* entry of a product is never a discount scoped to another category.
C15_BadgeOnlyWhereApplicable ==
  BadgeServed =>
    \A id \in RequestedIds :
      /\ \A k \in 1..Len(CatalogQuery(discounts, now)) :
           Considered(id, k) => AppliesTo(CatalogQuery(discounts, now)[k], id)
      /\ id \in DOMAIN res.out.result =>
           \E i \in 1..Len(discounts) :
             /\ res.out.result[id].code = toUpperCase(trim(discounts[i].code))
             /\ AppliesTo(discounts[i], id)

(* C16 --------------------------------------------------------------------*)
\* the codes the available offers list
ListedCodes(ds, t, subtotal, items, customerEmail) ==
  LET offers == getAvailableOffers(ds, products, t, subtotal, items,
                                   customerEmail, NullStr).offers
  IN {offers[k].code : k \in 1..Len(offers)}

\* the code returned for each product
BadgeCodes(ds, t, productIds) ==
  LET result == getDiscountsForProducts(ds, products, t, productIds).result
  IN [id \in DOMAIN result |-> result[id].code]

\* the two stores give every request at the instant t the same outcome
SameOutcomes(a, b, t) ==
  /\ \A code \in SweepCodes, items \in OneLineCarts, customerEmail \in SweepEmails :
       /\ validateStoreDiscount(a, orders, t, code, 18000, items,
                                customerEmail, NullStr).valid
            = validateStoreDiscount(b, orders, t, code, 18000, items,
                                    customerEmail, NullStr).valid
       /\ ListedCodes(a, t, 18000, items, customerEmail)
            = ListedCodes(b, t, 18000, items, customerEmail)
  /\ \A productIds \in IdLists :
       BadgeCodes(a, t, productIds) = BadgeCodes(b, t, productIds)

\* C16: no step of the status sweep changes an evaluation outcome: at every
\* instant from the step on, validate's valid/invalid result, the offers listed
\* and the discount returned per product are the same on the store before and
\* after the step, so a read before, between or after the two bulk updates of
\* any number of runs decides alike.
C16_SweepNeverChangesOutcome ==
  [][discounts' # discounts =>
       \A t \in now..MaxTime : SameOutcomes(discounts, discounts', t)]_vars

\* a read between the two bulk updates of a run that disabled the discount
C16_Witness ==
  /\ sync.pc = "activate"
  /\ sync.now > 0
  /\ discounts[1].status = "disabled"
  /\ discounts[1].updatedAt = sync.now
  /\ res.op = "validate"
  /\ res.discount = 1
  /\ ~res.out.valid
  /\ res.out.message = "This coupon is no longer active"

(* C17 --------------------------------------------------------------------*)
StatusesOf(ds) == [i \in 1..Len(ds) |-> ds[i].status]

\* C17: two runs of syncDiscountStatuses in a row at the same clock reading
\* leave every status as one run does, from every store state.
C17_SweepIdempotent ==
  \A t \in Times :
    StatusesOf(syncDiscountStatuses(syncDiscountStatuses(discounts, t), t))
      = StatusesOf(syncDiscountStatuses(discounts, t))

(* C18 --------------------------------------------------------------------*)
\* C18: a step of the sweep at the clock reading it took only turns an active
\* discount with a non-null expiresAt before that reading to disabled, or a
\* scheduled discount with startsAt null or not after it to active; every
\* other discount keeps its status, and no field other than status and
\* updatedAt changes.
C18_SweepTransitions ==
  [][(sync.pc # "idle" /\ sync' # sync) =>
       /\ Len(discounts') = Len(discounts)
       /\ \A i \in 1..Len(discounts) :
            LET d == discounts[i]
                e == discounts'[i]
            IN /\ [e EXCEPT !.status = d.status, !.updatedAt = d.updatedAt] = d
               /\ e.status # d.status =>
                    \/ /\ d.status = "active" /\ e.status = "disabled"
                       /\ d.expiresAt # Null /\ d.expiresAt < sync.now
                    \/ /\ d.status = "scheduled" /\ e.status = "active"
                       /\ d.startsAt = Null \/ d.startsAt <= sync.now
               /\ e.status = d.status => e.updatedAt = d.updatedAt]_vars

\* a run has activated a scheduled discount whose start has passed
C18_Witness ==
  /\ sync = SyncIdle
  /\ discounts[1].status = "active"
  /\ discounts[1].updatedAt > 0
  /\ discounts[1].startsAt # Null

(* C19 --------------------------------------------------------------------*)
\* C19: a step that serves validate, the available offers or the discounts for
\* products leaves the discount, order and product stores as they were, status
\* and usedCount included, whatever the request and its outcome.
C19_EvaluationReadOnly ==
  [][(res = Idle /\ res'.op \in {"validate", "available", "forProducts"}) =>
       /\ discounts' = discounts
       /\ orders' = orders
       /\ products' = products]_vars

\* a capped discount was accepted and its usedCount still reads 0
C19_Witness ==
  /\ res.op = "validate"
  /\ res.out.status = 200
  /\ res.discount = 1
  /\ res.out.valid
  /\ discounts[1].maxUsage = 1
  /\ discounts[1].usedCount = 0

(* C20 --------------------------------------------------------------------*)
\* a business rule fails for the request in res: the code is blank or unknown,
\* or one of the checks of the evaluator fails for the discount found
RuleFails ==
  \/ trim(res.code) = <<>>
  \/ res.discount = 0
  \/ FailingChecks(discounts[res.discount]) # {}

\* C20: while the store answers its reads, a request for which a business rule
\* fails gets {valid: false, message} with a non-empty message and nothing is
\* thrown; validateDiscountForOrder throws only when a store read fails.
C20_FailuresAreValues ==
  (res.op = "validate" /\ res.out.status # 400) =>
    /\ res.store = "up" =>
         /\ res.out.status = 200
         /\ RuleFails => ~res.out.valid /\ res.out.message # ""
    /\ res.out.status # 200 => res.store = "down" /\ trim(res.code) # <<>>

\* an unknown code is turned down with a message while the store answers
C20_Witness ==
  /\ res.op = "validate"
  /\ res.store = "up"
  /\ res.code = <<"z">>
  /\ res.out.status = 200
  /\ ~res.out.valid
  /\ res.out.message = "Invalid or expired coupon code"

(* C21 --------------------------------------------------------------------*)
\* the stored orders that carry the coupon of d with a discount
Redemptions(d) ==
  {i \in 1..Len(orders) :
     /\ orders[i].couponCode # NullStr
     /\ EqIgnoreCase(trim(orders[i].couponCode), trim(d.code))
     /\ orders[i].discountAmount > 0}

\* C21: a discount with maxUsage = N is never applied to more than N stored
\* orders, whether the checkout commits run one after the other or at once.
C21_NoOverRedemption ==
  \A k \in 1..Len(discounts) :
    discounts[k].maxUsage # Null =>
      Cardinality(Redemptions(discounts[k])) <= discounts[k].maxUsage

(* C22 --------------------------------------------------------------------*)
\* C22: an order stored with discountAmount > 0 carries a couponCode that the
\* re-validation of the same request accepted, and its discountAmount is the
\* amount that validation returned.
C22_StoredDiscountVerified ==
  [][\A r \in DOMAIN co :
       (co[r].pc = "insert" /\ co'[r].pc = "cart") =>
         LET order == orders'[Len(orders')]
         IN order.discountAmount > 0 =>
              /\ order.couponCode # NullStr
              /\ co[r].validation # NoValidation
              /\ co[r].validation.valid
              /\ order.discountAmount = co[r].validation.discountAmount]_vars

(* C23 --------------------------------------------------------------------*)
\* the stored orders of the email that redeemed a first-order-only discount
FirstOrderRedemptions(email) ==
  {i \in 1..Len(orders) :
     /\ EqIgnoreCase(orders[i].customerEmail, email)
     /\ orders[i].discountAmount > 0
     /\ \E k \in 1..Len(discounts) :
          discounts[k].firstOrderOnly /\ i \in Redemptions(discounts[k])}

\* C23: among the stored orders of one customer email at most one carries a
\* first-order-only coupon with a discount, concurrent requests included.
C23_FirstOrderOncePerEmail ==
  \A i \in 1..Len(orders) :
    Cardinality(FirstOrderRedemptions(orders[i].customerEmail)) <= 1

(* C24 --------------------------------------------------------------------*)
\* C24: a request whose coupon re-validation fails ends with 400
\* COUPON_INVALID, and neither the step that rejects it nor the step that ends
\* it inserts an order, creates a payment order or deletes a cart.
C24_CouponInvalidChangesNothing ==
  [][\A r \in DOMAIN co :
       /\ (/\ co[r].pc = "idle" /\ co'[r].pc # "idle"
           /\ co'[r].validation # NoValidation
           /\ ~co'[r].validation.valid) =>
            /\ co'[r].pc = "done"
            /\ co'[r].out.status = 400
            /\ co'[r].out.error = "COUPON_INVALID"
            /\ orders' = orders /\ payments' = payments /\ carts' = carts
       /\ (/\ co[r].pc = "done" /\ co[r].out.status = 400
           /\ co'[r] # co[r]) =>
            /\ co'[r] = CoIdle
            /\ orders' = orders /\ payments' = payments /\ carts' = carts]_vars

\* the returning customer "a" is turned down and the cart of "u1" is still there
C24_Witness ==
  /\ co[1].pc = "done"
  /\ co[1].out.status = 400
  /\ co[1].out.error = "COUPON_INVALID"
  /\ co[1].req.customerId = "u1"
  /\ "u1" \in carts
  /\ Len(orders) = 1
  /\ payments = 0

(* C25 --------------------------------------------------------------------*)
\* C25: every stored order has total = max(0, subtotal - discountAmount +
\* shippingAmount), whether or not the server's discount differs from the
\* client's.
C25_TotalFormula ==
  \A i \in 1..Len(orders) :
    orders[i].total =
      Max(0, orders[i].subtotal - orders[i].discountAmount + orders[i].shippingAmount)

(* C26 --------------------------------------------------------------------*)
\* validate's result for the discount d on the request the offers were listed
\* for, with the item-category map the listing resolved
ValidateAsListed(d) ==
  validateDiscountForOrder(discounts, orders, now, d.code, res.subtotal, res.items,
    [customerEmail |-> res.customerEmail,
     customerReferralCode |-> res.customerReferralCode,
     hasItemCategoryIds |-> TRUE,
     itemCategoryIds |-> ItemCategoryIds(products, ItemProductIds(res.items))])

\* C26: the discounts the available offers list unlocked are the discounts
\* validate accepts for the same subtotal, lines, customer, item-category map,
\* store and clock, each with the same discountAmount.
C26_UnlockedOffersAreAccepted ==
  (res.op = "available" /\ res.out.status = 200) =>
    \A i \in 1..Len(discounts) :
      LET d == discounts[i]
          result == ValidateAsListed(d)
          unlocked == {k \in 1..Len(res.out.offers) :
                         /\ res.out.offers[k].code = toUpperCase(trim(d.code))
                         /\ ~res.out.offers[k].locked}
      IN /\ unlocked # {} <=> result.valid
         /\ \A k \in unlocked :
              res.out.offers[k].discountAmount = result.discountAmount

(* C27 --------------------------------------------------------------------*)
\* C27: when a run of syncDiscountStatuses that read the clock at now
\* completes, no discount is active with a non-null expiresAt < now and none
\* is scheduled with startsAt null or <= now.
C27_SweptStoreIsSettled ==
  [][(sync.pc = "activate" /\ sync' = SyncIdle) =>
       \A i \in 1..Len(discounts') :
         /\ ~ExpiredForSweep(discounts'[i], sync.now)
         /\ ~DueForSweep(discounts'[i], sync.now)]_vars

\* C28: a disabled discount leaves "disabled" only through an admin update
\* whose body explicitly sets a status other than "disabled"; no sweep and no
\* other update changes it.
C28_DisabledStaysDisabled ==
  [][\A i \in 1..Len(discounts) :
       (discounts[i].status = "disabled" /\ discounts'[i].status # "disabled")
         => \E a \in DOMAIN admin :
              /\ admin[a].pc = "write" /\ admin'[a].pc = "done"
              /\ admin[a].id = i
              /\ admin[a].body.status \in Statuses \ {"disabled"}]_vars

\* C29: no two stored discounts have codes that are equal ignoring case.
C29_CodesUnique ==
  \A i, j \in 1..Len(discounts) :
    i # j => ~EqIgnoreCase(discounts[i].code, discounts[j].code)

\* C30: no two stored orders carry the same order number.
C30_OrderNumbersUnique ==
  \A i, j \in 1..Len(orders) :
    i # j => orders[i].orderNumber # orders[j].orderNumber

====
